---- MODULE Spec2Model ----
(***************************************************************************)
(* State-machine model of the WhisperToMe cog (src/whispertome.py).        *)
(*                                                                         *)
(* Every command and every message event is one asyncio task.  A task      *)
(* runs atomically from one real suspension point to the next: the awaits  *)
(* of ctx.send, attachment.save and message.reply.  The helper coroutines  *)
(* that send nothing (_should_ignore_message, _check_listening_status      *)
(* returning False, _validate_lang_code returning True) do not suspend,    *)
(* and the OpenAI client is the synchronous one, so models.list() and      *)
(* transcriptions.create() block the loop and do not suspend either.       *)
(* A handler's last ctx.send / channel.send is followed by nothing, so the *)
(* task is recorded as done once that send is issued.  ctx.send and        *)
(* channel.send are accepted by the chat host; message.reply, which the    *)
(* handler wraps in try/except, may raise.                                 *)
(*                                                                         *)
(* Strings that the code transforms (language codes, str.lower) are        *)
(* sequences of characters; optional environment values are sets with at   *)
(* most one element ({} = not set).                                        *)
(***************************************************************************)
EXTENDS Integers, Sequences, FiniteSets, TLC

VARIABLES
    listening,   \* self.listening
    lang_code,   \* self.lang_code
    api_key,     \* self.api_key
    client,      \* self.client, identified by the key it was built with
    dotenv,      \* contents of the .env file
    environ,     \* os.environ of the running process
    loaded,      \* FALSE when __init__ raised and no cog instance exists
    tasks,       \* the tasks and constructions so far, in dispatch order
    files        \* temporary files that exist, by the task that created them

vars == <<listening, lang_code, api_key, client, dotenv, environ, loaded, tasks, files>>

(* ------------------------------ bounds -------------------------------- *)

\* Number of commands, message events and re-constructions in one run.
MaxTasks == 3

(* ----------------------------- constants ------------------------------ *)

OPENAI_API_KEY == "OPENAI_API_KEY"
ISO_639_1_LANGUAGE_CODE == "ISO_639_1_LANGUAGE_CODE"
EnvNames == {OPENAI_API_KEY, ISO_639_1_LANGUAGE_CODE}

\* Default values of os.getenv in _load_env_vars.
DefaultApiKey == ""
DefaultLangCode == <<"e", "n">>

\* model="whisper-1" / model.id == "whisper-1"
WhisperModel == "whisper-1"

(* ------------------------ str.lower on codes -------------------------- *)

LowerChar(c) ==
    CASE c = "E" -> "e"
      [] c = "N" -> "n"
      [] c = "F" -> "f"
      [] c = "R" -> "r"
      [] c = "X" -> "x"
      [] OTHER -> c

\* Variant: the argument is looked up as typed.
lower_as_typed(s) == s

\* str.lower
lower(s) == [i \in 1..Len(s) |-> LowerChar(s[i])]

(* -------------------------- language registry ------------------------- *)

\* The dict built by _load_validation_language_dict: code -> name.
\* ISO-639-1 codes are two lower-case letters.
language_validation_list ==
    (<<"e", "n">> :> "English") @@ (<<"f", "r">> :> "French")

(* --------------------------- input domains ---------------------------- *)

\* Arguments of set_lang: a key in upper case, a key as is, a non-key.
LangArgs == {<<"E", "N">>, <<"f", "r">>, <<"x", "x">>}

\* ISO_639_1_LANGUAGE_CODE as found in .env at first start-up:
\* absent, a registry key, a code that is no registry key as written.
InitLangValues == {{}, {<<"f", "r">>}, {<<"E", "N">>}}

\* Arguments of set_api_key, and OPENAI_API_KEY as found in .env.
ApiKeyArgs == {"k2", "k3"}
InitApiKeyValues == {{}, {"k1"}, {"k3"}}

\* Texts the transcription service may return.
Transcripts == {"hello", "bye"}

\* Message events: author.bot, flags.voice, number of attachments.
Messages ==
    { [bot |-> FALSE, voice |-> TRUE,  attachments |-> 1],
      [bot |-> FALSE, voice |-> TRUE,  attachments |-> 0],
      [bot |-> TRUE,  voice |-> TRUE,  attachments |-> 1],
      [bot |-> FALSE, voice |-> FALSE, attachments |-> 1] }

(* --------------------------- remote service --------------------------- *)

\* Models the remote service grants to each key it accepts.
ModelsOf ==
    ("k1" :> {"gpt-4", WhisperModel}) @@
    ("k2" :> {"gpt-4", WhisperModel}) @@
    ("k3" :> {"gpt-4"})

\* client.models.list(): raises (network, authentication), or returns the
\* models of an accepted key.
ModelsList(key) ==
    {[raised |-> TRUE, data |-> {}]} \cup
    (IF key \in DOMAIN ModelsOf
        THEN {[raised |-> FALSE, data |-> ModelsOf[key]]}
        ELSE {})

\* client.audio.transcriptions.create(): raises, or returns a transcript when
\* the key has access to the model.
TranscriptionsCreate(key) ==
    {[raised |-> TRUE, text |-> ""]} \cup
    (IF key \in DOMAIN ModelsOf /\ WhisperModel \in ModelsOf[key]
        THEN {[raised |-> FALSE, text |-> t] : t \in Transcripts}
        ELSE {})

(* ------------------------------ helpers ------------------------------- *)

\* os.getenv(name, default)
getenv(env, name, default) ==
    IF env[name] = {} THEN default ELSE CHOOSE v \in env[name] : TRUE

\* load_dotenv(): override=False, variables already in os.environ are kept.
load_dotenv(env, file) ==
    [n \in EnvNames |-> IF env[n] # {} THEN env[n] ELSE file[n]]

\* set_key(".env", name, value): rewrites the file only.
set_key(file, name, value) == [file EXCEPT ![name] = {value}]

Msg(to, text) == [to |-> to, text |-> text]
\* A remote call as the service saw it, with what the service answered.
Call(op, key, language, result) ==
    [op |-> op, key |-> key, language |-> language, result |-> result]

\* Variant: any answered models.list() counts as valid.
validate_api_key_any_model(res) ==
    IF res.raised
        THEN [valid |-> FALSE,
              text  |-> "An error occurred while validating the API key"]
        ELSE [valid |-> TRUE, text |-> "API key is valid..."]

\* _validate_api_key: the verdict and the message sent for a models.list() result.
validate_api_key(res) ==
    IF res.raised
        THEN [valid |-> FALSE,
              text  |-> "An error occurred while validating the API key"]
    ELSE IF \E id \in res.data : id = WhisperModel
        THEN [valid |-> TRUE, text |-> "API key is valid..."]
        ELSE [valid |-> FALSE,
              text  |-> "API key is valid, but does not have access to the whisper-1 model"]

\* Variant: every code is accepted.
validate_lang_code_any(code) == TRUE

\* _validate_lang_code: membership in the registry, as written.
validate_lang_code(code) == code \in DOMAIN language_validation_list

\* _generate_error_message
generate_error_message(entity) == entity \o " is not set or is invalid"

\* Variant: the listening flag is not consulted.
should_ignore_message_no_flag(message) == message.bot \/ ~message.voice

\* Variant: the author is not consulted.
should_ignore_message_bots_too(message) == ~listening \/ ~message.voice

\* _should_ignore_message
should_ignore_message(message) ==
    ~listening \/ message.bot \/ ~message.voice

(* ------------------------------- tasks -------------------------------- *)

NoMessage == [bot |-> FALSE, voice |-> FALSE, attachments |-> 0]

NewTask(kind) ==
    [kind            |-> kind,
     pc              |-> "done",
     lang_arg        |-> <<>>,
     key_arg         |-> "",
     message         |-> NoMessage,
     entry_listening |-> listening,
     valid_lang_code |-> FALSE,
     valid_api_key   |-> FALSE,
     lang_checked    |-> <<>>,
     path            |-> FALSE,
     raised          |-> "",
     transcript      |-> "",
     sent            |-> <<>>,
     calls           |-> <<>>]

Ids == 1..Len(tasks)
InFlight(t) == tasks[t].pc # "done"
CanDispatch == loaded /\ Len(tasks) < MaxTasks

(* --------------------------- construction ----------------------------- *)

\* __init__: listening False, _load_env_vars, _load_open_ai_client.
\* The result of constructing the cog in a process with environment env and
\* .env contents file.
Construct(env, file) ==
    LET e   == load_dotenv(env, file)
        key == getenv(e, OPENAI_API_KEY, DefaultApiKey)
    IN  [environ   |-> e,
         listening |-> FALSE,
         api_key   |-> key,
         lang_code |-> getenv(e, ISO_639_1_LANGUAGE_CODE, DefaultLangCode),
         raised    |-> (key = ""),
         client    |-> key]

EmptyEnviron == [n \in EnvNames |-> {}]

Init ==
    /\ \E k \in InitApiKeyValues, l \in InitLangValues :
          dotenv = (OPENAI_API_KEY :> k) @@ (ISO_639_1_LANGUAGE_CODE :> l)
    /\ LET c == Construct(EmptyEnviron, dotenv)
       IN  /\ environ = c.environ
           /\ listening = c.listening
           /\ api_key = c.api_key
           /\ lang_code = c.lang_code
           /\ client = c.client
           /\ loaded = ~c.raised
    /\ tasks = <<>>
    /\ files = {}

(* ------------------------------ files --------------------------------- *)

\* tempfile.mkstemp(suffix=".ogg"): a fresh file, named here by its task.
mkstemp(fs, id) == fs \cup {id}

\* Variant: the file is left behind.
os_remove_skipped(fs, id) == fs

\* os.remove(path)
os_remove(fs, id) == fs \ {id}

(* ------------------------------- start -------------------------------- *)

\* _validate_env_vars, second half of line 79 on: the models.list() call of
\* _validate_api_key on the active client and the message it sends.
KeyValidated(task, key, res) ==
    LET v == validate_api_key(res)
    IN  [task EXCEPT !.valid_api_key = v.valid,
                     !.calls = Append(@, Call("models.list", key, <<>>, res)),
                     !.sent  = Append(@, Msg("ctx", v.text)),
                     !.pc    = "validate_api_key_send"]

\* start is dispatched: _validate_lang_code on self.lang_code; when the code
\* is valid nothing is sent and _validate_api_key follows without suspension.
Start ==
    /\ CanDispatch
    /\ LET t == [NewTask("start") EXCEPT
                    !.lang_checked    = lang_code,
                    !.valid_lang_code = validate_lang_code(lang_code)]
       IN  IF t.valid_lang_code
              THEN \E res \in ModelsList(client) :
                      tasks' = Append(tasks, KeyValidated(t, client, res))
              ELSE tasks' = Append(tasks,
                      [t EXCEPT !.sent = <<Msg("ctx", "Invalid language code in the environment variables")>>,
                                !.pc   = "validate_lang_code_send"])
    /\ UNCHANGED <<listening, lang_code, api_key, client, dotenv, environ, loaded, files>>

\* start resumes after the "Invalid language code" message: _validate_api_key.
StartValidateApiKey(t) ==
    /\ tasks[t].kind = "start"
    /\ tasks[t].pc = "validate_lang_code_send"
    /\ \E res \in ModelsList(client) :
          tasks' = [tasks EXCEPT ![t] = KeyValidated(@, client, res)]
    /\ UNCHANGED <<listening, lang_code, api_key, client, dotenv, environ, loaded, files>>

\* Variant: the current state is never recognised.
check_listening_status_never(status) == FALSE

\* _check_listening_status(ctx, status): TRUE when the notice is sent.
check_listening_status(status) == listening = status

\* The text of _check_listening_status's notice.
AlreadyNotice(status) ==
    IF status THEN "I'm already listening to messages"
              ELSE "I'm already not listening to messages"

\* The text of _toggle_listening's message.
ToggleNotice(status) ==
    IF status THEN "Started listening to all messages"
              ELSE "Stopped listening to all messages"

\* Variant: the check uses the flag as it was when the task was dispatched,
\* as if the task had been suspended between the check and the assignment.
CheckAndToggle_stale_check(ts, id, status) ==
    IF ts[id].entry_listening = status
       THEN /\ tasks' = [ts EXCEPT ![id] =
                   [@ EXCEPT !.sent = Append(@, Msg("ctx", AlreadyNotice(status))),
                             !.pc   = "done"]]
            /\ UNCHANGED listening
       ELSE /\ listening' = status
            /\ tasks' = [ts EXCEPT ![id] =
                   [@ EXCEPT !.sent = Append(@, Msg("ctx", ToggleNotice(status))),
                             !.pc   = "done"]]

\* _check_listening_status followed, with no suspension in between, by
\* _toggle_listening, run by task id of the task list ts.
CheckAndToggle(ts, id, status) ==
    IF check_listening_status(status)
       THEN /\ tasks' = [ts EXCEPT ![id] =
                   [@ EXCEPT !.sent = Append(@, Msg("ctx", AlreadyNotice(status))),
                             !.pc   = "done"]]
            /\ UNCHANGED listening
       ELSE /\ listening' = status
            /\ tasks' = [ts EXCEPT ![id] =
                   [@ EXCEPT !.sent = Append(@, Msg("ctx", ToggleNotice(status))),
                             !.pc   = "done"]]

\* Variant: the API key is reported before the language code.
StartDecide_key_first(t) ==
    /\ tasks[t].kind = "start"
    /\ tasks[t].pc = "validate_api_key_send"
    /\ IF ~tasks[t].valid_api_key
          THEN /\ tasks' = [tasks EXCEPT ![t] =
                      [@ EXCEPT !.sent = Append(@, Msg("ctx", generate_error_message("API key"))),
                                !.pc   = "done"]]
               /\ UNCHANGED listening
       ELSE IF ~tasks[t].valid_lang_code
          THEN /\ tasks' = [tasks EXCEPT ![t] =
                      [@ EXCEPT !.sent = Append(@, Msg("ctx", generate_error_message("Language code"))),
                                !.pc   = "done"]]
               /\ UNCHANGED listening
       ELSE CheckAndToggle(tasks, t, TRUE)
    /\ UNCHANGED <<lang_code, api_key, client, dotenv, environ, loaded, files>>

\* start resumes after _validate_api_key's message: the two diagnostics of
\* _validate_env_vars, then _check_listening_status and _toggle_listening.
StartDecide(t) ==
    /\ tasks[t].kind = "start"
    /\ tasks[t].pc = "validate_api_key_send"
    /\ IF ~tasks[t].valid_lang_code
          THEN /\ tasks' = [tasks EXCEPT ![t] =
                      [@ EXCEPT !.sent = Append(@, Msg("ctx", generate_error_message("Language code"))),
                                !.pc   = "done"]]
               /\ UNCHANGED listening
       ELSE IF ~tasks[t].valid_api_key
          THEN /\ tasks' = [tasks EXCEPT ![t] =
                      [@ EXCEPT !.sent = Append(@, Msg("ctx", generate_error_message("API key"))),
                                !.pc   = "done"]]
               /\ UNCHANGED listening
       ELSE CheckAndToggle(tasks, t, TRUE)
    /\ UNCHANGED <<lang_code, api_key, client, dotenv, environ, loaded, files>>

(* ------------------------------- stop --------------------------------- *)

\* Variant: the message is sent but the flag is not assigned.
Stop_flag_kept ==
    /\ CanDispatch
    /\ tasks' = Append(tasks,
           [NewTask("stop") EXCEPT !.sent =
               <<Msg("ctx", IF listening THEN ToggleNotice(FALSE) ELSE AlreadyNotice(FALSE))>>])
    /\ UNCHANGED <<listening, lang_code, api_key, client, dotenv, environ, loaded, files>>

\* stop: _check_listening_status(ctx, False), then _toggle_listening(False, ctx);
\* the task is created and runs to its only send in one step.
Stop ==
    /\ CanDispatch
    /\ CheckAndToggle(Append(tasks, NewTask("stop")), Len(tasks) + 1, FALSE)
    /\ UNCHANGED <<lang_code, api_key, client, dotenv, environ, loaded, files>>

(* ------------------------------ set_lang ------------------------------ *)

\* Variant: every argument is accepted.
set_lang_accepts_any(lang_code_arg) == TRUE

\* The test of set_lang: the lower-cased argument is a registry key.
set_lang_accepts(lang_code_arg) ==
    lower(lang_code_arg) \in DOMAIN language_validation_list

\* Variant: a new language also ends listening until the next start.
SetLang_stops_listening(arg) ==
    /\ CanDispatch
    /\ LET t == [NewTask("set_lang") EXCEPT !.lang_arg = arg]
       IN  IF set_lang_accepts(arg)
              THEN /\ dotenv' = set_key(dotenv, ISO_639_1_LANGUAGE_CODE, lower(arg))
                   /\ lang_code' = lower(arg)
                   /\ listening' = FALSE
                   /\ tasks' = Append(tasks,
                          [t EXCEPT !.sent = <<Msg("ctx", "Language set")>>])
              ELSE /\ tasks' = Append(tasks,
                          [t EXCEPT !.sent = <<Msg("ctx", "Invalid language code")>>])
                   /\ UNCHANGED <<dotenv, lang_code, listening>>
    /\ UNCHANGED <<api_key, client, environ, loaded, files>>

\* set_lang: lower(), registry lookup, set_key and the cached code, one send.
SetLang(arg) ==
    /\ CanDispatch
    /\ LET t == [NewTask("set_lang") EXCEPT !.lang_arg = arg]
           lowercase_lang_code == lower(arg)
       IN  IF set_lang_accepts(arg)
              THEN /\ dotenv' = set_key(dotenv, ISO_639_1_LANGUAGE_CODE, lowercase_lang_code)
                   /\ lang_code' = lowercase_lang_code
                   /\ tasks' = Append(tasks,
                          [t EXCEPT !.sent = <<Msg("ctx", "Language set")>>])
              ELSE /\ tasks' = Append(tasks,
                          [t EXCEPT !.sent = <<Msg("ctx", "Invalid language code")>>])
                   /\ UNCHANGED <<dotenv, lang_code>>
    /\ UNCHANGED <<listening, api_key, client, environ, loaded, files>>

(* ----------------------------- set_api_key ---------------------------- *)

\* set_api_key is dispatched: _validate_api_key on a client for the candidate.
SetApiKey(key) ==
    /\ CanDispatch
    /\ \E res \in ModelsList(key) :
          tasks' = Append(tasks,
              KeyValidated([NewTask("set_api_key") EXCEPT !.key_arg = key], key, res))
    /\ UNCHANGED <<listening, lang_code, api_key, client, dotenv, environ, loaded, files>>

\* Variant: the candidate key is committed whatever the validation said.
SetApiKeyCommit_unconditional(t) ==
    /\ tasks[t].kind = "set_api_key"
    /\ tasks[t].pc = "validate_api_key_send"
    /\ dotenv' = set_key(dotenv, OPENAI_API_KEY, tasks[t].key_arg)
    /\ client' = tasks[t].key_arg
    /\ tasks' = [tasks EXCEPT ![t] =
           [@ EXCEPT !.sent = Append(@, Msg("ctx", "API key set")), !.pc = "done"]]
    /\ UNCHANGED <<listening, lang_code, api_key, environ, loaded, files>>

\* set_api_key resumes after _validate_api_key's message.
SetApiKeyCommit(t) ==
    /\ tasks[t].kind = "set_api_key"
    /\ tasks[t].pc = "validate_api_key_send"
    /\ IF tasks[t].valid_api_key
          THEN /\ dotenv' = set_key(dotenv, OPENAI_API_KEY, tasks[t].key_arg)
               /\ client' = tasks[t].key_arg
               /\ tasks' = [tasks EXCEPT ![t] =
                      [@ EXCEPT !.sent = Append(@, Msg("ctx", "API key set")),
                                !.pc   = "done"]]
          ELSE /\ tasks' = [tasks EXCEPT ![t] =
                      [@ EXCEPT !.sent = Append(@, Msg("ctx", "API key not set due to errors")),
                                !.pc   = "done"]]
               /\ UNCHANGED <<dotenv, client>>
    /\ UNCHANGED <<listening, lang_code, api_key, environ, loaded, files>>

(* ----------------------------- on_message ----------------------------- *)

ProcessingError == Msg("channel", "Error processing voice message")

\* on_message is dispatched: _should_ignore_message, then
\* _process_voice_message up to the await of attachments[0].save.
OnMessage(message) ==
    /\ CanDispatch
    /\ LET id == Len(tasks) + 1
           t  == [NewTask("on_message") EXCEPT !.message = message]
       IN  IF should_ignore_message(message)
              THEN /\ tasks' = Append(tasks, t)
                   /\ UNCHANGED files
              ELSE \E created \in BOOLEAN :
                     IF ~created
                        \* mkstemp raised: the outer except reports it
                        THEN /\ tasks' = Append(tasks,
                                    [t EXCEPT !.raised = "mkstemp", !.sent = <<ProcessingError>>])
                             /\ UNCHANGED files
                     ELSE IF message.attachments = 0
                        \* attachments[0] raises IndexError: finally, then except
                        THEN /\ files' = os_remove(mkstemp(files, id), id)
                             /\ tasks' = Append(tasks,
                                    [t EXCEPT !.path = TRUE, !.raised = "attachments[0]",
                                              !.sent = <<ProcessingError>>])
                        ELSE /\ files' = mkstemp(files, id)
                             /\ tasks' = Append(tasks,
                                    [t EXCEPT !.path = TRUE, !.pc = "save"])
    /\ UNCHANGED <<listening, lang_code, api_key, client, dotenv, environ, loaded>>

\* Variant: a failed transcription is tried a second time before reporting.
SaveDone_retry(t) ==
    /\ tasks[t].kind = "on_message"
    /\ tasks[t].pc = "save"
    /\ \E saved \in BOOLEAN :
          IF ~saved
             THEN /\ files' = os_remove(files, t)
                  /\ tasks' = [tasks EXCEPT ![t] =
                         [@ EXCEPT !.raised = "save",
                                   !.sent = Append(@, ProcessingError), !.pc = "done"]]
             ELSE \E res \in TranscriptionsCreate(client) :
                    LET c == Call("audio.transcriptions.create", client, lang_code, res)
                    IN  IF res.raised
                           THEN /\ files' = os_remove(files, t)
                                /\ tasks' = [tasks EXCEPT ![t] =
                                       [@ EXCEPT !.calls = Append(Append(@, c), c),
                                                 !.raised = "transcriptions.create",
                                                 !.sent = Append(@, ProcessingError),
                                                 !.pc   = "done"]]
                           ELSE /\ UNCHANGED files
                                /\ tasks' = [tasks EXCEPT ![t] =
                                       [@ EXCEPT !.calls = Append(@, c),
                                                 !.transcript = res.text,
                                                 !.pc = "reply"]]
    /\ UNCHANGED <<listening, lang_code, api_key, client, dotenv, environ, loaded>>

\* The save returns or raises; on success _transcribe_voice_message runs on
\* the client and language code of that moment, and the reply is awaited.
SaveDone(t) ==
    /\ tasks[t].kind = "on_message"
    /\ tasks[t].pc = "save"
    /\ \E saved \in BOOLEAN :
          IF ~saved
             THEN /\ files' = os_remove(files, t)
                  /\ tasks' = [tasks EXCEPT ![t] =
                         [@ EXCEPT !.raised = "save",
                                   !.sent = Append(@, ProcessingError), !.pc = "done"]]
             ELSE \E res \in TranscriptionsCreate(client) :
                    LET called == [tasks[t] EXCEPT !.calls =
                            Append(@, Call("audio.transcriptions.create", client, lang_code, res))]
                    IN  IF res.raised
                           THEN /\ files' = os_remove(files, t)
                                /\ tasks' = [tasks EXCEPT ![t] =
                                       [called EXCEPT !.raised = "transcriptions.create",
                                                      !.sent = Append(@, ProcessingError),
                                                      !.pc   = "done"]]
                           ELSE /\ UNCHANGED files
                                /\ tasks' = [tasks EXCEPT ![t] =
                                       [called EXCEPT !.transcript = res.text,
                                                      !.pc = "reply"]]
    /\ UNCHANGED <<listening, lang_code, api_key, client, dotenv, environ, loaded>>

\* Variant: the reply carries the response object, not its text.
Replied_with_object(task, replied) ==
    [task EXCEPT !.raised = IF replied THEN "" ELSE "reply",
                 !.sent = Append(@, IF replied THEN Msg("reply", "Transcription(...)")
                                               ELSE ProcessingError),
                 !.pc = "done"]

\* The task after message.reply(transcript.text) returned or raised.
Replied(task, replied) ==
    [task EXCEPT !.raised = IF replied THEN "" ELSE "reply",
                 !.sent = Append(@, IF replied THEN Msg("reply", task.transcript)
                                               ELSE ProcessingError),
                 !.pc = "done"]

\* Variant: the reply is dropped when listening was stopped meanwhile.
ReplyDone_only_while_listening(t) ==
    /\ tasks[t].kind = "on_message"
    /\ tasks[t].pc = "reply"
    /\ listening
    /\ files' = os_remove(files, t)
    /\ \E replied \in BOOLEAN :
          tasks' = [tasks EXCEPT ![t] = Replied(@, replied)]
    /\ UNCHANGED <<listening, lang_code, api_key, client, dotenv, environ, loaded>>

\* message.reply returns or raises; finally removes the file, and a raised
\* exception is reported to the channel.
ReplyDone(t) ==
    /\ tasks[t].kind = "on_message"
    /\ tasks[t].pc = "reply"
    /\ files' = os_remove(files, t)
    /\ \E replied \in BOOLEAN :
          tasks' = [tasks EXCEPT ![t] = Replied(@, replied)]
    /\ UNCHANGED <<listening, lang_code, api_key, client, dotenv, environ, loaded>>

(* ------------------------------ restarts ------------------------------ *)

Quiescent == \A t \in Ids : ~InFlight(t)

\* Variant: the listening flag survives the construction.
Reconstruct_keeps_flag(env) ==
    /\ Quiescent
    /\ Len(tasks) < MaxTasks
    /\ LET c == Construct(env, dotenv)
       IN  /\ environ' = c.environ
           /\ UNCHANGED listening
           /\ api_key' = c.api_key
           /\ lang_code' = c.lang_code
           /\ client' = c.client
           /\ loaded' = ~c.raised
    /\ tasks' = Append(tasks, NewTask("__init__"))
    /\ UNCHANGED <<dotenv, files>>

\* The cog is constructed again in environment env; the construction is
\* entered in the task list like the commands and events around it.
Reconstruct(env) ==
    /\ Quiescent
    /\ Len(tasks) < MaxTasks
    /\ LET c == Construct(env, dotenv)
       IN  /\ environ' = c.environ
           /\ listening' = c.listening
           /\ api_key' = c.api_key
           /\ lang_code' = c.lang_code
           /\ client' = c.client
           /\ loaded' = ~c.raised
    /\ tasks' = Append(tasks, NewTask("__init__"))
    /\ UNCHANGED <<dotenv, files>>

\* The bot process is restarted: a fresh os.environ.
Restart == Reconstruct(EmptyEnviron)

\* The cog is reloaded inside the running process: os.environ is kept.
Reload == Reconstruct(environ)

(* ------------------------------- system ------------------------------- *)

Next ==
    \/ Start
    \/ \E t \in Ids : StartValidateApiKey(t)
    \/ \E t \in Ids : StartDecide(t)
    \/ Stop
    \/ \E a \in LangArgs : SetLang(a)
    \/ \E k \in ApiKeyArgs : SetApiKey(k)
    \/ \E t \in Ids : SetApiKeyCommit(t)
    \/ \E m \in Messages : OnMessage(m)
    \/ \E t \in Ids : SaveDone(t)
    \/ \E t \in Ids : ReplyDone(t)
    \/ Restart
    \/ Reload

Spec == Init /\ [][Next]_vars

(* ---------------------------- vocabulary ------------------------------ *)

\* The task dispatched by this step, when the step dispatches one.
Dispatches(kind) ==
    /\ Len(tasks') = Len(tasks) + 1
    /\ tasks'[Len(tasks')].kind = kind
New == tasks'[Len(tasks')]

\* Task t finishes in this step.
Finishes(t) == tasks[t].pc # "done" /\ tasks'[t].pc = "done"

Texts(task, to) ==
    LET F[i \in 0..Len(task.sent)] ==
            IF i = 0 THEN <<>>
            ELSE IF task.sent[i].to = to THEN Append(F[i-1], task.sent[i].text)
            ELSE F[i-1]
    IN  F[Len(task.sent)]

Sent(task, text) == \E i \in 1..Len(task.sent) : task.sent[i].text = text

\* The models.list() calls of a task that were answered with whisper-1.
ListedWhisper(task) ==
    \E i \in 1..Len(task.calls) :
        /\ task.calls[i].op = "models.list"
        /\ ~task.calls[i].result.raised
        /\ WhisperModel \in task.calls[i].result.data

ConfigUnchanged == UNCHANGED <<lang_code, api_key, client, dotenv, environ>>

(* ------------------------------- claims ------------------------------- *)

\* C1: a step that takes the listening flag from false to true is the step
\* of a start task that found self.lang_code among the registry keys and whose
\* models.list() call was answered with a list containing whisper-1.
C1_StartRequiresValidation ==
    [][ (~listening /\ listening') =>
          \E t \in Ids :
              /\ tasks[t].kind = "start"
              /\ Finishes(t)
              /\ tasks[t].lang_checked \in DOMAIN language_validation_list
              /\ ListedWhisper(tasks[t]) ]_vars

C1_Witness ==
    \E t \in Ids :
        /\ tasks[t].kind = "start" /\ tasks[t].pc = "done"
        /\ ~tasks[t].entry_listening
        /\ Sent(tasks[t], ToggleNotice(TRUE))
        /\ listening

\* C2: a message event dispatched while the listening flag is false changes
\* nothing but the record of the event itself, and its task never sends a
\* reply or channel message, creates no temporary file and calls no remote
\* operation.
C2_IdleMessageIgnored ==
    /\ [](\A t \in Ids :
            (tasks[t].kind = "on_message" /\ ~tasks[t].entry_listening) =>
                /\ tasks[t].pc = "done"
                /\ tasks[t].sent = <<>>
                /\ tasks[t].calls = <<>>
                /\ ~tasks[t].path
                /\ t \notin files)
    /\ [][ (Dispatches("on_message") /\ ~listening) =>
              /\ UNCHANGED <<listening, loaded, files>>
              /\ ConfigUnchanged
              /\ SubSeq(tasks', 1, Len(tasks)) = tasks ]_vars

C2_Witness ==
    \E t \in Ids :
        /\ tasks[t].kind = "on_message" /\ ~tasks[t].entry_listening
        /\ tasks[t].message.voice /\ ~tasks[t].message.bot
        /\ tasks[t].message.attachments = 1

\* C3: a finished voice-message task that created a temporary file has left
\* no file behind, whichever way it ended and whatever the other tasks do.
C3_TempFileRemoved ==
    \A t \in Ids :
        (tasks[t].kind = "on_message" /\ tasks[t].path /\ tasks[t].pc = "done")
            => t \notin files

\* Two voice-message tasks overlapped (the earlier one is still suspended with
\* its file when the later one has ended) and the later one removed its file.
C3_Witness ==
    \E t, u \in Ids :
        /\ t < u
        /\ tasks[t].kind = "on_message" /\ tasks[t].pc = "reply" /\ t \in files
        /\ tasks[u].kind = "on_message" /\ tasks[u].path /\ tasks[u].pc = "done"
        /\ tasks[u].raised = "transcriptions.create"
        /\ u \notin files

\* The successful audio.transcriptions.create() call of a task, if any.
TranscribedAt(task) ==
    { i \in 1..Len(task.calls) :
        /\ task.calls[i].op = "audio.transcriptions.create"
        /\ ~task.calls[i].result.raised }

\* A finished task for a voice message of a non-bot author that arrived
\* while listening.
VoiceTaskDone(t) ==
    /\ tasks[t].kind = "on_message" /\ tasks[t].pc = "done"
    /\ tasks[t].entry_listening
    /\ ~tasks[t].message.bot /\ tasks[t].message.voice

RepliedTranscriptOnly(task) ==
    /\ \E i \in TranscribedAt(task) :
          Texts(task, "reply") = <<task.calls[i].result.text>>
    /\ Texts(task, "channel") = <<>>

\* C4 as claimed: save and transcription succeeded, so there is exactly one
\* reply, carrying the transcript, and no error message.
C4_Original ==
    \A t \in Ids :
        (VoiceTaskDone(t) /\ TranscribedAt(tasks[t]) # {})
            => RepliedTranscriptOnly(tasks[t])

\* C4 (amended): when the save, the transcription and the delivery of the
\* reply all succeed, there is exactly one reply, its text is the transcript
\* the service returned, and no error message goes to the channel.
C4_ReplyIsTranscript ==
    \A t \in Ids :
        (VoiceTaskDone(t) /\ TranscribedAt(tasks[t]) # {} /\ tasks[t].raised # "reply")
            => RepliedTranscriptOnly(tasks[t])

C4_Witness ==
    \E t \in Ids :
        /\ VoiceTaskDone(t)
        /\ TranscribedAt(tasks[t]) # {}
        /\ tasks[t].raised = ""
        /\ Texts(tasks[t], "reply") = <<"bye">>

\* Letters that differ only in case.
CasePairs == {{"e", "E"}, {"n", "N"}, {"f", "F"}, {"r", "R"}, {"x", "X"}}

\* Two codes are equal when case is ignored.
SameIgnoringCase(a, b) ==
    /\ Len(a) = Len(b)
    /\ \A i \in 1..Len(a) : a[i] = b[i] \/ {a[i], b[i]} \in CasePairs

\* set_lang's argument equals a registry key when case is ignored.
MatchesIgnoringCase(arg) ==
    \E k \in DOMAIN language_validation_list : SameIgnoringCase(k, arg)

\* C5: set_lang with an argument that matches no registry key leaves the
\* cached and the persisted language code and the listening flag as they
\* were and sends the error reply.
C5_SetLangUnknown ==
    [][ (Dispatches("set_lang") /\ ~MatchesIgnoringCase(New.lang_arg)) =>
          /\ UNCHANGED <<lang_code, dotenv, listening>>
          /\ New.pc = "done"
          /\ New.sent = <<Msg("ctx", "Invalid language code")>> ]_vars

C5_Witness ==
    \E t \in Ids :
        /\ tasks[t].kind = "set_lang"
        /\ tasks[t].lang_arg = <<"x", "x">>
        /\ Sent(tasks[t], "Invalid language code")
        /\ lang_code # <<"x", "x">>

\* C6: set_lang with an argument that equals a registry key when case is
\* ignored sets the persisted and the cached code to that key and confirms.
C6_SetLangKnown ==
    [][ (Dispatches("set_lang") /\ MatchesIgnoringCase(New.lang_arg)) =>
          \E k \in DOMAIN language_validation_list :
              /\ SameIgnoringCase(k, New.lang_arg)
              /\ lang_code' = k
              /\ dotenv'[ISO_639_1_LANGUAGE_CODE] = {k}
              /\ New.pc = "done"
              /\ New.sent = <<Msg("ctx", "Language set")>> ]_vars

C6_Witness ==
    \E t \in Ids :
        /\ tasks[t].kind = "set_lang"
        /\ tasks[t].lang_arg = <<"E", "N">>
        /\ Sent(tasks[t], "Language set")
        /\ lang_code = <<"e", "n">>
        /\ dotenv[ISO_639_1_LANGUAGE_CODE] = {<<"e", "n">>}

\* No stop was dispatched after task t.
NoStopAfter(t) == \A u \in Ids : u > t => tasks[u].kind # "stop"

\* A finished start that was invoked while listening, with no later stop.
SecondStartDone(t) ==
    /\ tasks[t].kind = "start" /\ tasks[t].pc = "done"
    /\ tasks[t].entry_listening
    /\ NoStopAfter(t)

\* The validation of a start task passed: registry key and whisper-1 listed.
ValidationPassed(task) ==
    /\ task.lang_checked \in DOMAIN language_validation_list
    /\ ListedWhisper(task)

\* C7 as claimed: a start invoked while already listening, with no
\* intervening stop, emits the "already listening" notice.
C7_Original ==
    \A t \in Ids :
        SecondStartDone(t) => Sent(tasks[t], AlreadyNotice(TRUE))

\* C7 (amended): a start invoked while already listening, with no
\* intervening stop, changes neither the listening flag nor the config; it
\* ends with the "already listening" notice when its validation passes and
\* with the validation diagnostic, and no notice, when its validation fails.
C7_SecondStart ==
    /\ [](\A t \in Ids :
            SecondStartDone(t) =>
                /\ ~Sent(tasks[t], ToggleNotice(TRUE))
                /\ IF ValidationPassed(tasks[t])
                      THEN tasks[t].sent[Len(tasks[t].sent)] = Msg("ctx", AlreadyNotice(TRUE))
                      ELSE /\ ~Sent(tasks[t], AlreadyNotice(TRUE))
                           /\ \/ Sent(tasks[t], generate_error_message("Language code"))
                              \/ Sent(tasks[t], generate_error_message("API key")))
    /\ [][ /\ (Dispatches("start") /\ listening) =>
                 (UNCHANGED <<listening, loaded, files>> /\ ConfigUnchanged)
           /\ \A t \in Ids :
                 (/\ tasks[t].kind = "start" /\ tasks[t].entry_listening
                  /\ listening /\ tasks'[t] # tasks[t]) =>
                     (UNCHANGED <<listening, loaded, files>> /\ ConfigUnchanged) ]_vars

C7_Witness ==
    \E t \in Ids :
        /\ SecondStartDone(t)
        /\ ValidationPassed(tasks[t])
        /\ Sent(tasks[t], AlreadyNotice(TRUE))

\* C8: stop ends with the listening flag false, calls no remote operation
\* and leaves the config alone; while idle it changes nothing and sends the
\* "not listening" notice, while listening it sends "Stopped listening".
C8_Stop ==
    [][ Dispatches("stop") =>
          /\ listening' = FALSE
          /\ New.pc = "done"
          /\ New.calls = <<>>
          /\ ConfigUnchanged
          /\ UNCHANGED <<loaded, files>>
          /\ SubSeq(tasks', 1, Len(tasks)) = tasks
          /\ New.sent = <<Msg("ctx", IF listening THEN ToggleNotice(FALSE)
                                                  ELSE AlreadyNotice(FALSE))>> ]_vars

\* One stop found the cog listening and one found it idle.
C8_Witness ==
    \E t, u \in Ids :
        /\ tasks[t].kind = "stop" /\ tasks[t].entry_listening
        /\ Sent(tasks[t], ToggleNotice(FALSE))
        /\ tasks[u].kind = "stop" /\ ~tasks[u].entry_listening
        /\ Sent(tasks[u], AlreadyNotice(FALSE))
        /\ ~listening

\* C9: set_api_key first calls models.list() with the candidate key and
\* changes nothing; when it resumes it persists the key and swaps the client
\* exactly when that call was answered with whisper-1, and otherwise leaves
\* the persisted key and the client alone; language code and listening flag
\* are never changed.
C9_SetApiKey ==
    [][ /\ Dispatches("set_api_key") =>
              /\ UNCHANGED <<listening, loaded, files>>
              /\ ConfigUnchanged
              /\ Len(New.calls) = 1
              /\ New.calls[1].op = "models.list"
              /\ New.calls[1].key = New.key_arg
        /\ \A t \in Ids :
              (tasks[t].kind = "set_api_key" /\ Finishes(t)) =>
                  /\ UNCHANGED <<lang_code, listening>>
                  /\ tasks'[t].calls = tasks[t].calls
                  /\ IF ListedWhisper(tasks[t])
                        THEN /\ dotenv' = [dotenv EXCEPT ![OPENAI_API_KEY] = {tasks[t].key_arg}]
                             /\ client' = tasks[t].key_arg
                        ELSE UNCHANGED <<dotenv, client>> ]_vars

\* A rejected candidate (no whisper-1) and an accepted one.
C9_Witness ==
    \E t, u \in Ids :
        /\ tasks[t].kind = "set_api_key" /\ tasks[t].pc = "done"
        /\ tasks[t].key_arg = "k3"
        /\ ~tasks[t].calls[1].result.raised
        /\ Sent(tasks[t], "API key not set due to errors")
        /\ tasks[u].kind = "set_api_key" /\ tasks[u].pc = "done"
        /\ u > t
        /\ Sent(tasks[u], "API key set")
        /\ client = "k2" /\ dotenv[OPENAI_API_KEY] = {"k2"}

\* C10: when set_lang or set_api_key completes successfully, the cached
\* copy of the value (self.lang_code, self.api_key) equals the value in .env.
C10_CacheEqualsPersisted ==
    [][ /\ (Dispatches("set_lang") /\ Sent(New, "Language set")) =>
              dotenv'[ISO_639_1_LANGUAGE_CODE] = {lang_code'}
        /\ \A t \in Ids :
              (tasks[t].kind = "set_api_key" /\ Finishes(t) /\ Sent(tasks'[t], "API key set")) =>
                  dotenv'[OPENAI_API_KEY] = {api_key'} ]_vars

\* The models.list() call of a task raised.
ListRaised(task) ==
    \E i \in 1..Len(task.calls) :
        task.calls[i].op = "models.list" /\ task.calls[i].result.raised

\* C11: a missing API key, an invalid language code, a rejected key, a remote
\* failure and a failed attachment save are all answered with a message by
\* the handler they occur in, and none leaves a handler, the constructor
\* included, as an exception.
C11_ErrorsRecovered ==
    /\ loaded
    /\ \A t \in Ids :
          tasks[t].pc = "done" =>
              /\ ListRaised(tasks[t]) =>
                    Sent(tasks[t], "An error occurred while validating the API key")
              /\ (tasks[t].kind = "start" /\ ~validate_lang_code(tasks[t].lang_checked)) =>
                    Sent(tasks[t], generate_error_message("Language code"))
              /\ tasks[t].raised \in {"save", "transcriptions.create"} =>
                    tasks[t].sent[Len(tasks[t].sent)] = ProcessingError

\* The audio.transcriptions.create() calls of a task.
TranscriptionCalls(task) ==
    { i \in 1..Len(task.calls) : task.calls[i].op = "audio.transcriptions.create" }

\* A voice-message task that ended in a failed save or a failed transcription.
ProcessingFailed(task) ==
    /\ task.kind = "on_message" /\ task.pc = "done"
    /\ task.raised \in {"save", "transcriptions.create"}

\* C12: a voice-message task that fails in the save or in the transcription
\* has issued at most one transcription request, has sent exactly one error
\* message to the channel and no reply, and the step in which it fails leaves
\* the listening flag, the language code, the client and .env as they were.
C12_FailureReportedOnce ==
    /\ [](\A t \in Ids :
            ProcessingFailed(tasks[t]) =>
                /\ Cardinality(TranscriptionCalls(tasks[t])) <= 1
                /\ Texts(tasks[t], "channel") = <<ProcessingError.text>>
                /\ Texts(tasks[t], "reply") = <<>>)
    /\ [][ \A t \in Ids :
             (Finishes(t) /\ ProcessingFailed(tasks'[t])) =>
                 (UNCHANGED <<listening, loaded>> /\ ConfigUnchanged) ]_vars

\* A failed voice message is followed by one that is transcribed and replied.
C12_Witness ==
    \E t, u \in Ids :
        /\ t < u
        /\ ProcessingFailed(tasks[t])
        /\ tasks[t].raised = "transcriptions.create"
        /\ VoiceTaskDone(u)
        /\ tasks[u].raised = ""
        /\ Texts(tasks[u], "reply") # <<>>

\* C13: a message that arrives while listening from a bot author, or without
\* the voice flag, changes nothing: no reply or channel message, no temporary
\* file, no remote call.
C13_BotOrNonVoiceIgnored ==
    /\ [](\A t \in Ids :
            (/\ tasks[t].kind = "on_message" /\ tasks[t].entry_listening
             /\ (tasks[t].message.bot \/ ~tasks[t].message.voice)) =>
                /\ tasks[t].pc = "done"
                /\ tasks[t].sent = <<>>
                /\ tasks[t].calls = <<>>
                /\ ~tasks[t].path
                /\ t \notin files)
    /\ [][ (/\ Dispatches("on_message") /\ listening
            /\ (New.message.bot \/ ~New.message.voice)) =>
              /\ UNCHANGED <<listening, loaded, files>>
              /\ ConfigUnchanged
              /\ SubSeq(tasks', 1, Len(tasks)) = tasks ]_vars

C13_Witness ==
    \E t, u \in Ids :
        /\ tasks[t].kind = "on_message" /\ tasks[t].entry_listening
        /\ tasks[t].message.bot /\ tasks[t].message.voice
        /\ tasks[u].kind = "on_message" /\ tasks[u].entry_listening
        /\ ~tasks[u].message.bot /\ ~tasks[u].message.voice

\* Entry r of the task list is a construction with no start dispatched
\* between it and entry m.
ConstructedBefore(r, m) ==
    /\ r < m
    /\ tasks[r].kind = "__init__"
    /\ \A s \in Ids : (r < s /\ s < m) => tasks[s].kind # "start"

\* C14: constructing the handler again leaves the listening flag false,
\* whatever it was, and a message that arrives after a construction and
\* before any new start is ignored.
C14_RestartIdle ==
    /\ [][ Dispatches("__init__") => ~listening' ]_vars
    /\ [](\A m \in Ids :
            (tasks[m].kind = "on_message" /\ \E r \in Ids : ConstructedBefore(r, m)) =>
                /\ ~tasks[m].entry_listening
                /\ tasks[m].sent = <<>>
                /\ tasks[m].calls = <<>>
                /\ ~tasks[m].path)

\* The cog was listening when it was constructed again, and a voice message
\* that arrived afterwards was ignored.
C14_Witness ==
    \E r, m \in Ids :
        /\ ConstructedBefore(r, m)
        /\ tasks[r].entry_listening
        /\ tasks[m].kind = "on_message"
        /\ tasks[m].message.voice /\ ~tasks[m].message.bot
        /\ tasks[m].sent = <<>>

\* C15: once set_lang (set_api_key) has succeeded, a construction of the
\* handler loads the language code (API key, client) that .env holds, which
\* is the value the command wrote last.
C15_RoundTrip ==
    [][ Dispatches("__init__") =>
          /\ (\E t \in Ids : tasks[t].kind = "set_lang" /\ Sent(tasks[t], "Language set"))
                => {lang_code'} = dotenv[ISO_639_1_LANGUAGE_CODE]
          /\ (\E t \in Ids : tasks[t].kind = "set_api_key" /\ Sent(tasks[t], "API key set"))
                => ({api_key'} = dotenv[OPENAI_API_KEY] /\ client' = api_key') ]_vars

\* The diagnostic a failed validation ends with: language code first.
Diagnostic(task) ==
    IF task.lang_checked \notin DOMAIN language_validation_list
       THEN Msg("ctx", generate_error_message("Language code"))
       ELSE Msg("ctx", generate_error_message("API key"))

\* C16: a start whose validation fails never sets the listening flag, sends
\* no "Started listening", and ends with the diagnostic of the failing item:
\* the language code's when the code is invalid, else the API key's.
C16_FailedStart ==
    /\ [](\A t \in Ids :
            (/\ tasks[t].kind = "start" /\ tasks[t].pc = "done"
             /\ ~ValidationPassed(tasks[t])) =>
                /\ ~Sent(tasks[t], ToggleNotice(TRUE))
                /\ ~Sent(tasks[t], AlreadyNotice(TRUE))
                /\ tasks[t].sent[Len(tasks[t].sent)] = Diagnostic(tasks[t]))
    /\ [][ \A t \in Ids :
             (/\ tasks[t].kind = "start" /\ Finishes(t)
              /\ ~ValidationPassed(tasks[t])) => UNCHANGED listening ]_vars

\* Language code and API key are both invalid: the language code is named.
C16_Witness ==
    \E t \in Ids :
        /\ tasks[t].kind = "start" /\ tasks[t].pc = "done"
        /\ tasks[t].lang_checked \notin DOMAIN language_validation_list
        /\ ~ListedWhisper(tasks[t])
        /\ tasks[t].sent[Len(tasks[t].sent)] = Msg("ctx", generate_error_message("Language code"))

\* C17: whenever the listening flag is true, self.lang_code is a registry
\* key, and every transcription request carried a registry key as language.
C17_ListeningLangValid ==
    /\ listening => lang_code \in DOMAIN language_validation_list
    /\ \A t \in Ids : \A i \in TranscriptionCalls(tasks[t]) :
          tasks[t].calls[i].language \in DOMAIN language_validation_list

\* The cog listens although a start once found the loaded code invalid.
C17_Witness ==
    /\ listening
    /\ \E t \in Ids :
          /\ tasks[t].kind = "start"
          /\ tasks[t].lang_checked \notin DOMAIN language_validation_list

TasksSending(text) == { t \in Ids : Sent(tasks[t], text) }

\* C18: between constructions the flag is toggled alternately: the starts
\* that sent "Started listening" exceed the stops that sent "Stopped
\* listening" by one when the flag is true and by none when it is false, so
\* of several starts (stops) from one state exactly one makes the transition;
\* every finished start whose validation passed and every stop sent either
\* the transition message or the "already" notice, never both.
C18_SingleTransition ==
    /\ (\A t \in Ids : tasks[t].kind # "__init__") =>
          Cardinality(TasksSending(ToggleNotice(TRUE)))
            = Cardinality(TasksSending(ToggleNotice(FALSE))) + (IF listening THEN 1 ELSE 0)
    /\ \A t \in Ids :
          /\ (/\ tasks[t].kind = "start" /\ tasks[t].pc = "done"
              /\ ValidationPassed(tasks[t])) =>
                (Sent(tasks[t], ToggleNotice(TRUE)) # Sent(tasks[t], AlreadyNotice(TRUE)))
          /\ tasks[t].kind = "stop" =>
                (Sent(tasks[t], ToggleNotice(FALSE)) # Sent(tasks[t], AlreadyNotice(FALSE)))

\* Two starts were both dispatched while idle, so they interleaved; one made
\* the transition and the other sent the notice.
C18_Witness ==
    \E t, u \in Ids :
        /\ t # u
        /\ tasks[t].kind = "start" /\ tasks[u].kind = "start"
        /\ ~tasks[t].entry_listening /\ ~tasks[u].entry_listening
        /\ Sent(tasks[t], ToggleNotice(TRUE))
        /\ Sent(tasks[u], AlreadyNotice(TRUE))

\* C19: a transcription request or a reply belongs to a message whose
\* arrival check saw the flag true, a non-bot author and the voice flag; the
\* flag is not consulted again: a task suspended in the save can always go on
\* to a transcription, and one suspended in the reply can always deliver it,
\* also when the flag has become false.
C19_SampledAtArrival ==
    \A t \in Ids :
        /\ (TranscriptionCalls(tasks[t]) # {} \/ Texts(tasks[t], "reply") # <<>>) =>
              /\ tasks[t].kind = "on_message"
              /\ tasks[t].entry_listening
              /\ ~tasks[t].message.bot /\ tasks[t].message.voice
        /\ (tasks[t].kind = "on_message" /\ tasks[t].pc = "save") =>
              ENABLED (SaveDone(t) /\ tasks'[t].pc = "reply")
        /\ (tasks[t].kind = "on_message" /\ tasks[t].pc = "reply") =>
              ENABLED (ReplyDone(t) /\ tasks'[t].raised = "")

\* A stop completed after the message arrived; the message was transcribed
\* and replied to, and the flag is false.
C19_Witness ==
    \E t, u \in Ids :
        /\ t < u
        /\ VoiceTaskDone(t)
        /\ tasks[u].kind = "stop" /\ Sent(tasks[u], ToggleNotice(FALSE))
        /\ ~listening
        /\ TranscribedAt(tasks[t]) # {}
        /\ Texts(tasks[t], "reply") # <<>>

\* Task t of the given kind is dispatched or resumed by this step.
StepOf(kind) ==
    \/ Dispatches(kind)
    \/ \E t \in Ids : tasks[t].kind = kind /\ tasks'[t] # tasks[t]

\* C20: set_lang and set_api_key leave the listening flag alone; start and
\* stop leave the language code, the client and .env alone; set_lang leaves
\* the client and the persisted API key alone; set_api_key leaves the
\* language code alone.
C20_Frames ==
    [][ /\ StepOf("set_lang") =>
              (UNCHANGED <<listening, client>>
                  /\ dotenv'[OPENAI_API_KEY] = dotenv[OPENAI_API_KEY])
        /\ StepOf("set_api_key") =>
              (UNCHANGED <<listening, lang_code>>
                  /\ dotenv'[ISO_639_1_LANGUAGE_CODE] = dotenv[ISO_639_1_LANGUAGE_CODE])
        /\ (StepOf("start") \/ StepOf("stop")) =>
              UNCHANGED <<lang_code, client, dotenv>> ]_vars

\* Language and key were both changed while listening, and the cog listens.
C20_Witness ==
    \E t, u \in Ids :
        /\ tasks[t].kind = "set_lang" /\ tasks[t].entry_listening
        /\ Sent(tasks[t], "Language set")
        /\ tasks[u].kind = "set_api_key" /\ tasks[u].entry_listening
        /\ Sent(tasks[u], "API key set")
        /\ listening
====
